---- MODULE Spec2Model ----
(***************************************************************************)
(* Model of valkyrie_translator's LCM2ROSControl plugin                    *)
(* (src/src/LCM2ROSControl.cpp): the command table written by the LCM      *)
(* handler and the per-cycle control law, clamps and snapshot messages of  *)
(* LCM2ROSControl::update.                                                 *)
(*                                                                         *)
(* Numbers.  The program computes in double; the model computes in exact   *)
(* integers on a grid:                                                     *)
(*   - positions are counted in steps of 0.025 rad, so the ramp width of   *)
(*     0.1 rad is 4 steps;                                                 *)
(*   - efforts entering the control law are integers; from the ramp stage  *)
(*     on (which divides by the ramp width) command_effort is carried as   *)
(*     the numerator of a fraction over the ramp width, so the scaling is  *)
(*     exact.  Fx(x) converts an integer effort to that form.              *)
(* Joint names are std::string keys; the model writes them as the naturals *)
(* 1..4, whose numeric order stands for the strings' lexicographic order.  *)
(* 0 stands for the empty string "".                                       *)
(***************************************************************************)
EXTENDS Integers, Sequences, FiniteSets, TLC

\* ---------------------------------------------------------------- bounds
\* capacity of the handler's LCM receive queue that the model explores
MaxQueue == 2
\* last time stamp (in control periods) at which update is called
MaxTime == 2

\* ------------------------------------------------------ program constants
FORCE_CONTROL_ALLOWABLE_POSITION_ERR_BOUND == 4
FORCE_CONTROL_MAX_CHANGE == 20
DEFAULT_MAX_EFFORT == 100
DEFAULT_MIN_POSITION == -400
DEFAULT_MAX_POSITION == 400
\* the sanity threshold of update: fabs(command_effort) < 1000.
SANITY_BOUND == 1000
\* utime = time.toSec() * 1000000.
USEC_PER_SEC == 1000000

\* ------------------------------------------------------------ arithmetic
Max(a, b) == IF a >= b THEN a ELSE b
Min(a, b) == IF a <= b THEN a ELSE b
fmax(a, b) == Max(a, b)
fmin(a, b) == Min(a, b)
fabs(x) == IF x < 0 THEN -x ELSE x

\* inline double clamp(double x, double lower, double upper)
clamp(x, lower, upper) == Max(lower, Min(upper, x))

\* an integer effort as a numerator over the ramp width
Fx(x) == x * FORCE_CONTROL_ALLOWABLE_POSITION_ERR_BOUND

\* ------------------------------------------------------------ environment
\* effort_hw->getNames() and position_hw->getNames(): the hardware
\* interface's ResourceManager lists the keys of its name-keyed std::map, so
\* the names come in ascending order.
EffortNames == <<1, 3>>
PositionNames == <<2>>
\* a name no hardware interface knows
UnknownName == 4
EmptyName == 0

\* the "joints" parameter of the controller: absent/empty, or a selection
JointSelections == { <<>>, <<2, 1>> }

\* what getJointLimits finds on the parameter server: joint 3 has no limits
ParamLimits ==
  (1 :> [min_position |-> -8, max_position |-> 40, max_effort |-> 50]) @@
  (2 :> [min_position |-> -40, max_position |-> 40, max_effort |-> 10])

\* a bool parameter of the controller: set or not, and its value
Unset == [present |-> FALSE, value |-> FALSE]
Set(b) == [present |-> TRUE, value |-> b]
\* the three bool parameters as the parameter server can hold them: none
\* set, or all set one way or another
ParamServers ==
  { [publish_core_robot_state |-> Unset, publish_est_robot_state |-> Unset,
     apply_commands |-> Unset],
    [publish_core_robot_state |-> Set(FALSE),
     publish_est_robot_state |-> Set(TRUE), apply_commands |-> Set(TRUE)],
    [publish_core_robot_state |-> Set(TRUE),
     publish_est_robot_state |-> Set(TRUE), apply_commands |-> Set(FALSE)],
    [publish_core_robot_state |-> Set(FALSE),
     publish_est_robot_state |-> Set(FALSE), apply_commands |-> Set(TRUE)] }

\* ---------------------------------------------------------------- types
\* struct joint_command: the eleven fields the handler copies
ZeroCommand ==
  [position |-> 0, velocity |-> 0, effort |-> 0,
   k_q_p |-> 0, k_q_i |-> 0, k_qd_p |-> 0, k_f_p |-> 0,
   ff_qd |-> 0, ff_qd_d |-> 0, ff_f_d |-> 0, ff_const |-> 0]

\* the inbound values the model draws batch entries from
\* CmdA: a proportional position command (0.6 rad, k_q_p = 3)
CmdA == [ZeroCommand EXCEPT !.position = 24, !.velocity = 1, !.k_q_p = 3]
\* CmdB: a large constant feed-forward; its position is beyond joint 2's
\* configured range and inside the default range
CmdB == [ZeroCommand EXCEPT !.position = 50, !.ff_const = 2000]
\* CmdC: every gain set, and a large negative feed-forward; its position is
\* below every range
CmdC ==
  [position |-> -500, velocity |-> 2, effort |-> 7,
   k_q_p |-> 1, k_q_i |-> 1, k_qd_p |-> 2, k_f_p |-> 1,
   ff_qd |-> 1, ff_qd_d |-> 1, ff_f_d |-> 1, ff_const |-> -2000]

Entry(n, c) == [joint_name |-> n, command |-> c]

\* bot_core::atlas_command_t messages on ROBOT_COMMAND: parallel arrays of
\* num_joints entries, written here as a sequence of (name, values).  The
\* third names joint 1 between two names no interface knows, and then names
\* joint 2 twice.
Batches ==
  { <<Entry(1, CmdA)>>,
    <<Entry(3, CmdB), Entry(2, CmdA)>>,
    <<Entry(UnknownName, CmdC), Entry(1, CmdC), Entry(UnknownName, CmdA),
      Entry(2, CmdC), Entry(2, CmdB)>> }

\* what RobotHW::read() can leave in the joints' registers before an update:
\* joint 1 is read inside its range, at its upper limit, inside the ramp,
\* at the end of the ramp and beyond it, with a small, a large and an
\* implausible measured effort; joints 2 and 3 read the same each time
HwNames == {1, 2, 3}
Sample(q, qd, f) == [position |-> q, velocity |-> qd, effort |-> f]
Joint1Samples ==
  { Sample(20, 1, 2), Sample(40, 1, 2), Sample(42, 1, 50),
    Sample(44, 1, 50), Sample(-13, 1, 2), Sample(20, 1, 1100),
    Sample(45, 1, 1100) }
Samples ==
  { [n \in HwNames |-> IF n = 1 THEN s ELSE Sample(0, 1, 0)] :
      s \in Joint1Samples }

\* the periods between two updates
Periods == {1, 2}

\* ---------------------------------------------------------------- state
VARIABLES
  state_,                  \* ControllerBase::state_
  publishCoreRobotState,   \* the three flags initRequest reads
  publish_est_robot_state,
  applyCommands,
  joint_limits,            \* std::map name -> JointLimits
  effortJointHandles,      \* keys of the map name -> JointHandle
  positionJointHandles,
  latest_commands,         \* std::map name -> joint_command
  last_update,             \* ros::Time of the previous cycle
  robot_hw,                \* the registers the handles point to
  inbox,                   \* receive queue of the handler's lcm_
  lcm_pose_msg,            \* the four messages update builds
  lcm_commanded_msg,
  lcm_torque_msg,
  lcm_state_msg,
  published,               \* channels update published on in its last call
  registered,              \* history: order in which handles were inserted
  arrived,                 \* history: per joint, the last arrived entry
  cycle,                   \* history: what the last update call did
  pc,                      \* where the control thread is inside update
  callback,                \* the jointCommandHandler call in progress
  reads,                   \* the entries the loops of this update have read
  dispatched               \* history: the messages handed to the handler

vars == <<state_, publishCoreRobotState, publish_est_robot_state,
          applyCommands, joint_limits, effortJointHandles,
          positionJointHandles, latest_commands, last_update, robot_hw,
          inbox, lcm_pose_msg, lcm_commanded_msg, lcm_torque_msg,
          lcm_state_msg, published, registered, arrived, cycle,
          pc, callback, reads, dispatched>>

\* what only the statement-level view of update moves
stepVars == <<pc, callback, reads, dispatched>>

\* an std::map with no entries
EmptyMap == [n \in {} |-> 0]

\* a message none has built yet
NoMsg == [utime |-> 0, num_joints |-> 0, joint_name |-> <<>>,
          joint_position |-> <<>>, joint_velocity |-> <<>>,
          joint_effort |-> <<>>]
\* cycle: the period of the last update call, the messages its poll
\* dispatched, the command table and the arrivals as they were when it
\* polled, each joint's intermediate values and its setCommand calls
NoCycle == [ran |-> FALSE, dt |-> 0, handled |-> <<>>, before |-> EmptyMap,
            arrived |-> EmptyMap, stages |-> EmptyMap,
            setCommand |-> EmptyMap]

\* no handler call is running
NoCallback == [msg |-> <<>>, i |-> 0, field |-> 0]

\* the state after LCM2ROSControl() and ControllerBase(): nothing registered.
\* The constructor leaves the three flags unset; initRequest sets them before
\* anything reads them.
Init ==
  /\ state_ = "CONSTRUCTED"
  /\ publishCoreRobotState = FALSE
  /\ publish_est_robot_state = FALSE
  /\ applyCommands = FALSE
  /\ joint_limits = EmptyMap
  /\ effortJointHandles = {}
  /\ positionJointHandles = {}
  /\ latest_commands = EmptyMap
  /\ last_update = 0
  /\ robot_hw = [n \in HwNames |-> [position |-> 0, velocity |-> 0,
                                     effort |-> 0, command |-> 0]]
  /\ inbox = <<>>
  /\ lcm_pose_msg = NoMsg
  /\ lcm_commanded_msg = NoMsg
  /\ lcm_torque_msg = NoMsg
  /\ lcm_state_msg = NoMsg
  /\ published = {}
  /\ registered = [effort |-> <<>>, position |-> <<>>]
  /\ arrived = EmptyMap
  /\ cycle = NoCycle
  /\ pc = "idle"
  /\ callback = NoCallback
  /\ reads = EmptyMap
  /\ dispatched = {}

\* ------------------------------------------------------------ initRequest
Range(s) == {s[i] : i \in 1..Len(s)}

\* controller_nh.getParam(name, flag), and the default taken when it fails
GetParam(p, default) == IF p.present THEN p.value ELSE default

\* the loop over joint_names_ that fills joint_limits (lines 76-85)
LoadJointLimits(joint_names_) ==
  [n \in Range(joint_names_) \cap DOMAIN ParamLimits |-> ParamLimits[n]]

\* the names a registration loop keeps, in the order it meets them
\* (lines 99-103, 138-142): all of them without a selection
RECURSIVE Claimed(_, _)
Claimed(names, joint_names_) ==
  IF names = <<>> THEN <<>>
  ELSE IF Len(joint_names_) # 0 /\ Head(names) \notin Range(joint_names_)
       THEN Claimed(Tail(names), joint_names_)
       ELSE <<Head(names)>> \o Claimed(Tail(names), joint_names_)

initRequest ==
  /\ state_ = "CONSTRUCTED"
  /\ \E params \in ParamServers, joint_names_ \in JointSelections :
       LET effort == Claimed(EffortNames, joint_names_)
           position == Claimed(PositionNames, joint_names_)
       IN /\ publishCoreRobotState' =
               GetParam(params.publish_core_robot_state, TRUE)
          /\ publish_est_robot_state' =
               GetParam(params.publish_est_robot_state, FALSE)
          /\ applyCommands' = GetParam(params.apply_commands, FALSE)
          /\ joint_limits' = LoadJointLimits(joint_names_)
          /\ effortJointHandles' = Range(effort)
          /\ positionJointHandles' = Range(position)
          /\ latest_commands' =
               [n \in Range(effort) \cup Range(position) |-> ZeroCommand]
          /\ registered' = [effort |-> effort, position |-> position]
  /\ state_' = "INITIALIZED"
  /\ UNCHANGED <<last_update, robot_hw, inbox, lcm_pose_msg,
                 lcm_commanded_msg, lcm_torque_msg, lcm_state_msg, published,
                 arrived, cycle>>
  /\ UNCHANGED stepVars

\* starting(time), called by ControllerBase::startRequest, which then sets
\* state_ to RUNNING
starting ==
  /\ state_ = "INITIALIZED"
  /\ last_update' = 0
  /\ state_' = "RUNNING"
  /\ UNCHANGED <<publishCoreRobotState, publish_est_robot_state,
                 applyCommands, joint_limits, effortJointHandles,
                 positionJointHandles, latest_commands, robot_hw, inbox,
                 lcm_pose_msg, lcm_commanded_msg, lcm_torque_msg,
                 lcm_state_msg, published, registered, arrived, cycle>>
  /\ UNCHANGED stepVars

\* ------------------------------------------------------- command ingest
\* the loop body with the lookup left out: operator[] makes an entry
HandleEntryInserting(table, e) ==
  [n \in DOMAIN table \cup {e.joint_name} |->
     IF n = e.joint_name THEN e.command ELSE table[n]]

\* one iteration of jointCommandHandler's loop (lines 452-471): find the
\* name; when it is there, copy the eleven values of index i
HandleEntry(table, e) ==
  IF e.joint_name \in DOMAIN table
  THEN [table EXCEPT ![e.joint_name] =
          [position |-> e.command.position,
           velocity |-> e.command.velocity,
           effort |-> e.command.effort,
           k_q_p |-> e.command.k_q_p,
           k_q_i |-> e.command.k_q_i,
           k_qd_p |-> e.command.k_qd_p,
           k_f_p |-> e.command.k_f_p,
           ff_qd |-> e.command.ff_qd,
           ff_qd_d |-> e.command.ff_qd_d,
           ff_f_d |-> e.command.ff_f_d,
           ff_const |-> e.command.ff_const]]
  ELSE table

\* LCM2ROSControl_LCMHandler::jointCommandHandler: i = 0 .. num_joints-1
RECURSIVE jointCommandHandler(_, _)
jointCommandHandler(table, msg) ==
  IF msg = <<>> THEN table
  ELSE jointCommandHandler(HandleEntry(table, Head(msg)), Tail(msg))

\* LCM2ROSControl_LCMHandler::update: lcm_->handleTimeout(0) dispatches the
\* next message of the queue to the subscribed handler when one is waiting,
\* and returns at once when none is; it handles one message per call
HandlerUpdate(table, queue) ==
  IF queue = <<>> THEN [table |-> table, queue |-> queue]
  ELSE [table |-> jointCommandHandler(table, Head(queue)),
        queue |-> Tail(queue)]

\* the last entry of a batch that names n
RECURSIVE LastNamed(_, _, _)
LastNamed(msg, n, before) ==
  IF msg = <<>> THEN before
  ELSE LastNamed(Tail(msg), n,
                 IF Head(msg).joint_name = n THEN Head(msg).command
                 ELSE before)
NamesOf(msg) == {msg[i].joint_name : i \in 1..Len(msg)}

\* a ROBOT_COMMAND message reaches the socket the handler subscribed
\* (line 444); the handler exists once initRequest has built it (line 62).
\* The model follows arrivals while a further update can still be called.
arrive ==
  /\ state_ # "CONSTRUCTED"
  /\ Len(inbox) < MaxQueue
  /\ last_update < MaxTime
  /\ \E msg \in Batches :
       /\ inbox' = Append(inbox, msg)
       /\ arrived' = [n \in DOMAIN arrived \cup NamesOf(msg) |->
                        IF n \in NamesOf(msg)
                        THEN LastNamed(msg, n, ZeroCommand)
                        ELSE arrived[n]]
  /\ UNCHANGED <<state_, publishCoreRobotState, publish_est_robot_state,
                 applyCommands, joint_limits, effortJointHandles,
                 positionJointHandles, latest_commands, last_update,
                 robot_hw, lcm_pose_msg, lcm_commanded_msg, lcm_torque_msg,
                 lcm_state_msg, published, registered, cycle>>
  /\ UNCHANGED stepVars

\* ---------------------------------------------------------- control law
\* the raw effort of lines 308-316
RawEffort(command, q, qd, f, dt) ==
    command.k_q_p * (command.position - q)
  + command.k_q_i * (command.position - q) * dt
  + command.k_qd_p * (command.velocity - qd)
  + command.k_f_p * (command.effort - f)
  + command.ff_qd * qd
  + command.ff_qd_d * command.velocity
  + command.ff_f_d * command.effort
  + command.ff_const

DefaultLimits == [min_position |-> DEFAULT_MIN_POSITION,
                  max_position |-> DEFAULT_MAX_POSITION,
                  max_effort |-> DEFAULT_MAX_EFFORT]
\* joint_limits_interface::JointLimits(): every value starts at 0
ConstructedLimits == [min_position |-> 0, max_position |-> 0,
                      max_effort |-> 0]

\* the limits the effort loop uses (lines 319-328): the defaults when the
\* joint has none, else a copy of the joint's
EffortLimits(name, limits_map) ==
  IF name \notin DOMAIN limits_map THEN DefaultLimits
  ELSE limits_map[name]

\* the limits the position loop uses (lines 397-404): the defaults when the
\* joint has none; there is no else branch, so a joint that has limits is
\* clamped with the freshly constructed JointLimits
PositionLimits(name, limits_map) ==
  IF name \notin DOMAIN limits_map THEN DefaultLimits
  ELSE ConstructedLimits

\* line 331
MagnitudeStage(command_effort, limits) ==
  clamp(command_effort, -limits.max_effort, limits.max_effort)

\* line 334
ErrBeyondBound(q, limits) ==
  fmax(q - limits.max_position, limits.min_position - q)

\* the ramp with the taper turned round: full effort at the end of the ramp
RampStageInverted(command_effort, err_beyond_bound) ==
  IF err_beyond_bound >= FORCE_CONTROL_ALLOWABLE_POSITION_ERR_BOUND
  THEN Fx(0)
  ELSE IF err_beyond_bound >= 0
       THEN command_effort * err_beyond_bound
       ELSE Fx(command_effort)

\* the ramp without its first branch: beyond the ramp the factor goes on
RampStageNoNull(command_effort, err_beyond_bound) ==
  IF err_beyond_bound >= 0
  THEN command_effort
       * (FORCE_CONTROL_ALLOWABLE_POSITION_ERR_BOUND - err_beyond_bound)
  ELSE Fx(command_effort)

\* lines 335-342; the result is a numerator over the ramp width
RampStage(command_effort, err_beyond_bound) ==
  IF err_beyond_bound >= FORCE_CONTROL_ALLOWABLE_POSITION_ERR_BOUND
  THEN Fx(0)
  ELSE IF err_beyond_bound >= 0
       THEN command_effort
            * (FORCE_CONTROL_ALLOWABLE_POSITION_ERR_BOUND - err_beyond_bound)
       ELSE Fx(command_effort)

\* the rate stage with its two bounds exchanged
RateStageSwapped(command_effort, f) ==
  IF command_effort > Fx(f)
  THEN fmin(Fx(f) - Fx(FORCE_CONTROL_MAX_CHANGE), command_effort)
  ELSE fmax(Fx(f) + Fx(FORCE_CONTROL_MAX_CHANGE), command_effort)

\* lines 348-351, on numerators: f and the maximal change are converted
RateStage(command_effort, f) ==
  IF command_effort > Fx(f)
  THEN fmin(Fx(f) + Fx(FORCE_CONTROL_MAX_CHANGE), command_effort)
  ELSE fmax(Fx(f) - Fx(FORCE_CONTROL_MAX_CHANGE), command_effort)

\* lines 354-362: the setCommand calls of one effort joint
EffortSetCommand(apply, command_effort) ==
  IF apply
  THEN IF fabs(command_effort) < Fx(SANITY_BOUND)
       THEN <<command_effort>>
       ELSE <<Fx(0)>>
  ELSE <<>>

\* the torque message reporting what setCommand was given
TorqueReportedApplied(apply, command_effort) ==
  IF apply /\ fabs(command_effort) >= Fx(SANITY_BOUND) THEN Fx(0)
  ELSE command_effort

\* line 382: what the torque message reports for the joint, with commands
\* applied or not
TorqueReported(apply, command_effort) == command_effort

\* one iteration of the loop over effortJointHandles (lines 303-362)
EffortJoint(name, command, limits_map, reg, dt, apply) ==
  LET q == reg.position
      qd == reg.velocity
      f == reg.effort
      raw == RawEffort(command, q, qd, f, dt)
      limits == EffortLimits(name, limits_map)
      mag == MagnitudeStage(raw, limits)
      err == ErrBeyondBound(q, limits)
      ramp == RampStage(mag, err)
      rate == RateStage(ramp, f)
  IN [kind |-> "effort", q |-> q, qd |-> qd, f |-> f, command |-> command,
      limits |-> limits, raw |-> raw, mag |-> mag, err |-> err,
      ramp |-> ramp, rate |-> rate,
      torque |-> TorqueReported(apply, rate),
      calls |-> EffortSetCommand(apply, rate)]

\* lines 410-412: the setCommand calls of one position joint
PositionSetCommand(apply, position_to_go) ==
  IF apply THEN <<position_to_go>> ELSE <<>>

\* one iteration of the loop over positionJointHandles (lines 390-412)
PositionJoint(name, command, limits_map, reg, apply) ==
  LET limits == PositionLimits(name, limits_map)
      position_to_go ==
        clamp(command.position, limits.min_position, limits.max_position)
  IN [kind |-> "position", q |-> reg.position, qd |-> reg.velocity,
      command |-> command, limits |-> limits,
      position_to_go |-> position_to_go,
      calls |-> PositionSetCommand(apply, position_to_go)]

\* ------------------------------------------------------------- messages
\* begin() .. end() of the handle maps, which the code fills with
\* operator[] under a std::string key and reads as first/second pairs:
\* std::map iteration, in ascending key order
RECURSIVE MapOrder(_)
MapOrder(keys) ==
  IF keys = {} THEN <<>>
  ELSE LET first == CHOOSE k \in keys : \A other \in keys : k <= other
       IN <<first>> \o MapOrder(keys \ {first})

\* vector::assign(n, value); C++ index i is index i + 1 here
Assign(n, value) == [i \in 1..n |-> value]

\* the writes array[index] = ..., index++ of one loop over the joints `keys`
RECURSIVE WriteAll(_, _, _, _)
WriteAll(array, keys, index, values) ==
  IF keys = <<>> THEN array
  ELSE WriteAll([array EXCEPT ![index + 1] = values[Head(keys)]],
                Tail(keys), index + 1, values)

\* the position loop counting from 0 again
PositionJointIndexFromZero(effortJointIndex) == 0

\* line 388: the position loop's first index
PositionJointIndex(effortJointIndex) == effortJointIndex

Field(results, field) == [n \in DOMAIN results |-> results[n][field]]
Names(results) == [n \in DOMAIN results |-> n]
\* iter->second.getEffort() at lines 368 and 373: the effort register, which
\* setCommand (it writes the command register) leaves as it was
MeasuredEffort(results) == [n \in DOMAIN results |-> results[n].f]
Targets(results, field) ==
  [n \in DOMAIN results |-> results[n].command[field]]

\* an array of a message over all joints: the effort loop writes from index
\* 0, the position loop from positionJointIndex
JointArray(n, empty, effortKeys, effortValues, positionKeys, positionValues) ==
  WriteAll(WriteAll(Assign(n, empty), effortKeys, 0, effortValues),
           positionKeys, PositionJointIndex(Len(effortKeys)), positionValues)

ZeroPose == [translation |-> <<0, 0, 0>>, rotation |-> <<1, 0, 0, 0>>]
ZeroTwist == [linear_velocity |-> <<0, 0, 0>>,
              angular_velocity |-> <<0, 0, 0>>]

\* the two loops' per-joint results (lines 299-362 and 389-412)
EffortResults(table, limits_map, regs, effortHandles, dt, apply) ==
  [n \in effortHandles |->
     EffortJoint(n, table[n], limits_map, regs[n], dt, apply)]
PositionResults(table, limits_map, regs, positionHandles, apply) ==
  [n \in positionHandles |->
     PositionJoint(n, table[n], limits_map, regs[n], apply)]

\* the message of lines 246-252 as the loops fill it (365-368, 416-418)
PoseMsg(effort, position, utime) ==
  LET effortKeys == MapOrder(DOMAIN effort)
      positionKeys == MapOrder(DOMAIN position)
      numberOfJointInterfaces ==
        Cardinality(DOMAIN effort) + Cardinality(DOMAIN position)
  IN [utime |-> utime,
      num_joints |-> numberOfJointInterfaces,
      joint_name |->
        JointArray(numberOfJointInterfaces, EmptyName,
                   effortKeys, Names(effort), positionKeys, Names(position)),
      joint_position |->
        JointArray(numberOfJointInterfaces, 0,
                   effortKeys, Field(effort, "q"),
                   positionKeys, Field(position, "q")),
      joint_velocity |->
        JointArray(numberOfJointInterfaces, 0,
                   effortKeys, Field(effort, "qd"),
                   positionKeys, Field(position, "qd")),
      joint_effort |->
        JointArray(numberOfJointInterfaces, 0,
                   effortKeys, MeasuredEffort(effort), <<>>, EmptyMap)]

\* the message of lines 255-261 as the loops fill it (376-379, 425-428)
CommandedMsg(effort, position, utime) ==
  LET effortKeys == MapOrder(DOMAIN effort)
      positionKeys == MapOrder(DOMAIN position)
      numberOfJointInterfaces ==
        Cardinality(DOMAIN effort) + Cardinality(DOMAIN position)
  IN [utime |-> utime,
      num_joints |-> numberOfJointInterfaces,
      joint_name |->
        JointArray(numberOfJointInterfaces, EmptyName,
                   effortKeys, Names(effort), positionKeys, Names(position)),
      joint_position |->
        JointArray(numberOfJointInterfaces, 0,
                   effortKeys, Targets(effort, "position"),
                   positionKeys, Targets(position, "position")),
      joint_velocity |->
        JointArray(numberOfJointInterfaces, 0,
                   effortKeys, Targets(effort, "velocity"),
                   positionKeys, Targets(position, "velocity")),
      joint_effort |->
        JointArray(numberOfJointInterfaces, 0,
                   effortKeys, Targets(effort, "effort"),
                   positionKeys, Targets(position, "effort"))]

\* the message of lines 265-270 as the effort loop fills it (381-382)
TorqueMsg(effort, utime) ==
  LET effortKeys == MapOrder(DOMAIN effort)
  IN [robot_name |-> "val!",
      utime |-> utime,
      num_joints |-> Cardinality(DOMAIN effort),
      joint_name |->
        WriteAll(Assign(Cardinality(DOMAIN effort), EmptyName),
                 effortKeys, 0, Names(effort)),
      joint_position |->
        WriteAll(Assign(Cardinality(DOMAIN effort), 0),
                 effortKeys, 0, Field(effort, "torque"))]

\* the message of lines 275-294 as the loops fill it (370-373, 420-422):
\* the same writes as the first message, and the fixed pose and twist
StateMsg(effort, position, utime) ==
  LET filled == PoseMsg(effort, position, utime)
  IN [utime |-> utime,
      num_joints |-> filled.num_joints,
      joint_name |-> filled.joint_name,
      joint_position |-> filled.joint_position,
      joint_velocity |-> filled.joint_velocity,
      joint_effort |-> filled.joint_effort,
      pose |-> ZeroPose,
      twist |-> ZeroTwist]

\* the four messages of a cycle (lines 239-431)
Messages(effort, position, time) ==
  [pose |-> PoseMsg(effort, position, time * USEC_PER_SEC),
   commanded |-> CommandedMsg(effort, position, time * USEC_PER_SEC),
   torque |-> TorqueMsg(effort, time * USEC_PER_SEC),
   state |-> StateMsg(effort, position, time * USEC_PER_SEC)]

\* the setCommand calls of a cycle, per joint
SetCommandCalls(effort, position) ==
  [n \in DOMAIN effort \cup DOMAIN position |->
     IF n \in DOMAIN effort THEN effort[n].calls ELSE position[n].calls]

\* the command register after the setCommand calls of a cycle
AfterCalls(command, calls) ==
  IF calls = <<>> THEN command ELSE calls[Len(calls)]

\* LCM2ROSControl::update(time, period).  RobotHW::read() has refreshed the
\* registers before the call.  handler_->update() polls the handler's queue;
\* the controller's own lcm_ has no subscription, so its handleTimeout(0)
\* (line 235) dispatches nothing.  No message is handed to lcm_->publish.
update ==
  /\ state_ = "RUNNING"
  /\ \E dt \in Periods, sample \in Samples :
     \E time \in {last_update + dt} :
     \E polled \in {HandlerUpdate(latest_commands, inbox)} :
     \E handled \in {SubSeq(inbox, 1, Len(inbox) - Len(polled.queue))} :
     \E regs \in {[n \in HwNames |->
                      [position |-> sample[n].position,
                       velocity |-> sample[n].velocity,
                       effort |-> sample[n].effort,
                       command |-> robot_hw[n].command]]} :
     \E effort \in {EffortResults(polled.table, joint_limits, regs,
                                  effortJointHandles, dt, applyCommands)} :
     \E position \in {PositionResults(polled.table, joint_limits, regs,
                                      positionJointHandles, applyCommands)} :
     \E msgs \in {Messages(effort, position, time)} :
     \E calls \in {SetCommandCalls(effort, position)} :
          /\ time <= MaxTime
          /\ latest_commands' = polled.table
          /\ inbox' = polled.queue
          /\ last_update' = time
          /\ robot_hw' =
               [n \in HwNames |->
                  IF n \in DOMAIN calls
                  THEN [regs[n] EXCEPT !.command = AfterCalls(@, calls[n])]
                  ELSE regs[n]]
          /\ lcm_pose_msg' = msgs.pose
          /\ lcm_commanded_msg' = msgs.commanded
          /\ lcm_torque_msg' = msgs.torque
          /\ lcm_state_msg' = msgs.state
          /\ published' = {}
          /\ cycle' = [ran |-> TRUE, dt |-> dt, handled |-> handled,
                       before |-> latest_commands, arrived |-> arrived,
                       stages |-> [n \in DOMAIN calls |->
                                     IF n \in DOMAIN effort THEN effort[n]
                                     ELSE position[n]],
                       setCommand |-> calls]
  /\ UNCHANGED <<state_, publishCoreRobotState, publish_est_robot_state,
                 applyCommands, joint_limits, effortJointHandles,
                 positionJointHandles, registered, arrived>>
  /\ UNCHANGED stepVars

Next == initRequest \/ starting \/ arrive \/ update

Spec == Init /\ [][Next]_vars

\* ------------------------------------- update, statement by statement
\* The same operations with update and the handler it calls taken one
\* statement at a time, while messages keep arriving at the socket.

\* the order in which lines 457-467 assign the fields of an entry
FieldOrder ==
  <<"position", "velocity", "effort", "k_q_p", "k_q_i", "k_qd_p", "k_f_p",
    "ff_qd", "ff_qd_d", "ff_f_d", "ff_const">>

\* a poll that comes back while the handler it started is still running,
\* as it would with the handler on a thread of its own
HandleTimeoutDetached(call) == TRUE

\* lcm_->handleTimeout(0) (line 474) calls the subscribed handler on the
\* calling thread: it returns once the handler has returned, and at once
\* when no message was waiting
HandleTimeoutReturns(call) == call.msg = <<>>

\* update is entered (line 232) and handler_->update() polls (lines 234,
\* 473-475): the oldest waiting message, when there is one, is handed to
\* jointCommandHandler.  One handler call runs at a time.
updatePoll ==
  /\ state_ = "RUNNING"
  /\ pc = "idle"
  /\ callback = NoCallback
  /\ last_update < MaxTime
  /\ pc' = "poll"
  /\ reads' = EmptyMap
  /\ IF inbox = <<>>
     THEN /\ callback' = NoCallback
          /\ UNCHANGED <<inbox, dispatched>>
     ELSE /\ callback' = [msg |-> Head(inbox), i |-> 1, field |-> 1]
          /\ inbox' = Tail(inbox)
          /\ dispatched' = dispatched \cup {Head(inbox)}
  /\ cycle' = [NoCycle EXCEPT
                 !.handled = IF inbox = <<>> THEN <<>> ELSE <<Head(inbox)>>,
                 !.before = latest_commands,
                 !.arrived = arrived]
  /\ UNCHANGED <<state_, publishCoreRobotState, publish_est_robot_state,
                 applyCommands, joint_limits, effortJointHandles,
                 positionJointHandles, latest_commands, last_update,
                 robot_hw, lcm_pose_msg, lcm_commanded_msg, lcm_torque_msg,
                 lcm_state_msg, published, registered, arrived>>

\* one statement of jointCommandHandler (lines 452-471): the lookup of
\* entry i when it finds nothing, or else the next of the eleven
\* assignments to the entry found; after the last entry the handler returns
jointCommandHandlerStep ==
  /\ callback.msg # <<>>
  /\ LET msg == callback.msg
         i == callback.i
         name == msg[i].joint_name
         field == FieldOrder[callback.field]
         next == IF i < Len(msg)
                 THEN [msg |-> msg, i |-> i + 1, field |-> 1]
                 ELSE NoCallback
     IN IF name \notin DOMAIN latest_commands
        THEN /\ callback' = next
             /\ UNCHANGED latest_commands
        ELSE /\ latest_commands' =
                  [latest_commands EXCEPT
                     ![name][field] = msg[i].command[field]]
             /\ callback' = IF callback.field < Len(FieldOrder)
                            THEN [callback EXCEPT !.field = @ + 1]
                            ELSE next
  /\ UNCHANGED <<state_, publishCoreRobotState, publish_est_robot_state,
                 applyCommands, joint_limits, effortJointHandles,
                 positionJointHandles, last_update, robot_hw, inbox,
                 lcm_pose_msg, lcm_commanded_msg, lcm_torque_msg,
                 lcm_state_msg, published, registered, arrived, cycle,
                 pc, reads, dispatched>>

\* the poll returns to update; the controller's own lcm_ has no
\* subscription, so line 235 dispatches nothing, and the loops begin
updatePollReturns ==
  /\ pc = "poll"
  /\ HandleTimeoutReturns(callback)
  /\ pc' = "loops"
  /\ UNCHANGED <<state_, publishCoreRobotState, publish_est_robot_state,
                 applyCommands, joint_limits, effortJointHandles,
                 positionJointHandles, latest_commands, last_update,
                 robot_hw, inbox, lcm_pose_msg, lcm_commanded_msg,
                 lcm_torque_msg, lcm_state_msg, published, registered,
                 arrived, cycle, callback, reads, dispatched>>

\* the joints in the order the two loops visit them (lines 299 and 389)
LoopOrder == MapOrder(effortJointHandles) \o MapOrder(positionJointHandles)

\* one iteration of a loop takes its joint's entry of latest_commands
\* (lines 307 and 406) for the control law (308-316, 408) and for the
\* echoed command (377-379, 426-428)
updateIteration ==
  /\ pc = "loops"
  /\ Cardinality(DOMAIN reads) < Len(LoopOrder)
  /\ LET name == LoopOrder[Cardinality(DOMAIN reads) + 1]
     IN reads' = [n \in DOMAIN reads \cup {name} |->
                    IF n = name THEN latest_commands[name] ELSE reads[n]]
  /\ UNCHANGED <<state_, publishCoreRobotState, publish_est_robot_state,
                 applyCommands, joint_limits, effortJointHandles,
                 positionJointHandles, latest_commands, last_update,
                 robot_hw, inbox, lcm_pose_msg, lcm_commanded_msg,
                 lcm_torque_msg, lcm_state_msg, published, registered,
                 arrived, cycle, pc, callback, dispatched>>

\* the register readings the statement-level view follows: joint 1 inside
\* its range with a small measured effort, and beyond it with an
\* implausible one
StepSamples ==
  {sample \in Samples :
     sample[1] \in {Sample(20, 1, 2), Sample(45, 1, 1100)}}

\* both loops are through and update returns (line 433): what the
\* iterations computed from the entries they read is in the registers and
\* in the four messages
updateReturns ==
  /\ pc = "loops"
  /\ Cardinality(DOMAIN reads) = Len(LoopOrder)
  /\ \E dt \in Periods, sample \in StepSamples :
     \E time \in {last_update + dt} :
     \E regs \in {[n \in HwNames |->
                      [position |-> sample[n].position,
                       velocity |-> sample[n].velocity,
                       effort |-> sample[n].effort,
                       command |-> robot_hw[n].command]]} :
     \E effort \in {EffortResults(reads, joint_limits, regs,
                                  effortJointHandles, dt, applyCommands)} :
     \E position \in {PositionResults(reads, joint_limits, regs,
                                      positionJointHandles, applyCommands)} :
     \E msgs \in {Messages(effort, position, time)} :
     \E calls \in {SetCommandCalls(effort, position)} :
          /\ time <= MaxTime
          /\ last_update' = time
          /\ robot_hw' =
               [n \in HwNames |->
                  IF n \in DOMAIN calls
                  THEN [regs[n] EXCEPT !.command = AfterCalls(@, calls[n])]
                  ELSE regs[n]]
          /\ lcm_pose_msg' = msgs.pose
          /\ lcm_commanded_msg' = msgs.commanded
          /\ lcm_torque_msg' = msgs.torque
          /\ lcm_state_msg' = msgs.state
          /\ published' = {}
          /\ cycle' = [cycle EXCEPT
                         !.ran = TRUE, !.dt = dt,
                         !.stages = [n \in DOMAIN calls |->
                                       IF n \in DOMAIN effort THEN effort[n]
                                       ELSE position[n]],
                         !.setCommand = calls]
  /\ pc' = "idle"
  /\ UNCHANGED <<state_, publishCoreRobotState, publish_est_robot_state,
                 applyCommands, joint_limits, effortJointHandles,
                 positionJointHandles, latest_commands, inbox, registered,
                 arrived, callback, reads, dispatched>>

NextSteps ==
  \/ initRequest
  \/ starting
  \/ arrive
  \/ updatePoll
  \/ jointCommandHandlerStep
  \/ updatePollReturns
  \/ updateIteration
  \/ updateReturns

SpecSteps == Init /\ [][NextSteps]_vars

\* ================================================================ claims
Registered == effortJointHandles \cup positionJointHandles
EffortRan == {n \in DOMAIN cycle.stages : cycle.stages[n].kind = "effort"}
PositionRan ==
  {n \in DOMAIN cycle.stages : cycle.stages[n].kind = "position"}

\* the message the last cycle's poll dispatched
Handled == cycle.handled[1]
\* index i is the last entry of msg that names its joint
LastOfItsName(msg, i) ==
  \A k \in (i + 1)..Len(msg) : msg[k].joint_name # msg[i].joint_name

\* C1: after jointCommandHandler has processed a batch, (a) the command
\* table has an entry for no joint name it had none for before, (b) every
\* entry whose name the batch does not contain is unchanged in every field,
\* (c) every known joint the batch names holds the values the batch gives it
\* (those of the last entry naming it), whatever unknown names come before
\* or after it, and (d) nothing fails: the cycle runs to its end and the
\* table still holds one entry of eleven fields per registered joint.
C1_UnknownJointIsolation ==
  (cycle.ran /\ cycle.handled # <<>>) =>
     /\ DOMAIN latest_commands = DOMAIN cycle.before
     /\ \A n \in DOMAIN cycle.before :
          n \notin NamesOf(Handled) => latest_commands[n] = cycle.before[n]
     /\ \A i \in 1..Len(Handled) :
          (Handled[i].joint_name \in DOMAIN cycle.before
             /\ LastOfItsName(Handled, i))
          => latest_commands[Handled[i].joint_name] = Handled[i].command
     /\ DOMAIN latest_commands = Registered
     /\ \A n \in Registered :
          DOMAIN latest_commands[n] = DOMAIN ZeroCommand

\* a cycle handled the batch that names joint 1 between two unknown names:
\* joint 1 holds its values, joint 3 was left alone, no entry was made
C1_Witness ==
  /\ cycle.ran
  /\ Len(cycle.handled) = 1
  /\ Handled[1].joint_name = UnknownName
  /\ Handled[2].joint_name = 1
  /\ Handled[3].joint_name = UnknownName
  /\ cycle.before[1] = CmdA
  /\ latest_commands[1] = CmdC
  /\ 3 \in DOMAIN latest_commands
  /\ latest_commands[3] = ZeroCommand
  /\ UnknownName \notin DOMAIN latest_commands

\* C10: in every cycle the poll runs before the control law, and the entry
\* the control law reads for a joint is that of the most recently arrived
\* batch naming the joint, over all batches arrived up to the poll (several
\* since the previous cycle included); all zeros when none ever named it.
C10_LastWriteWins ==
  cycle.ran =>
    \A n \in DOMAIN cycle.stages :
      cycle.stages[n].command =
        IF n \in DOMAIN cycle.arrived THEN cycle.arrived[n] ELSE ZeroCommand

\* the limits the claims speak of: the joint's configured limits when limits
\* were loaded for it, the defaults when none were
ClaimedLimits(n) ==
  IF n \in DOMAIN joint_limits THEN joint_limits[n] ELSE DefaultLimits
\* err = max(q - maxPosition, minPosition - q)
ClaimedErr(n) ==
  Max(cycle.stages[n].q - ClaimedLimits(n).max_position,
      ClaimedLimits(n).min_position - cycle.stages[n].q)
\* x bounded to [lower, upper]
Bounded(x, lower, upper) ==
  IF x < lower THEN lower ELSE IF x > upper THEN upper ELSE x
\* the value of the torque message at the joint's index
TorqueOf(n) ==
  LET i == CHOOSE i \in 1..Len(lcm_torque_msg.joint_name) :
             lcm_torque_msg.joint_name[i] = n
  IN lcm_torque_msg.joint_position[i]
Implausible(x) == fabs(x) >= Fx(SANITY_BOUND)

\* C2: in every cycle and for every effort joint, an effort that leaves the
\* rate-of-change clamp with magnitude >= 1000 is replaced by 0 both in what
\* is written to the hardware and in what the torque message reports,
\* whether commands are applied or not.
C2_SanityOverride ==
  cycle.ran =>
    \A n \in EffortRan :
      Implausible(cycle.stages[n].rate) =>
        /\ TorqueOf(n) = 0
        /\ \A i \in 1..Len(cycle.setCommand[n]) : cycle.setCommand[n][i] = 0

\* the messages and calls of the same cycle with the apply flag reversed:
\* same command table, limits, period, time and register readings
TwinEffort ==
  EffortResults(latest_commands, joint_limits, robot_hw, effortJointHandles,
                cycle.dt, ~applyCommands)
TwinPosition ==
  PositionResults(latest_commands, joint_limits, robot_hw,
                  positionJointHandles, ~applyCommands)
TwinMessages == Messages(TwinEffort, TwinPosition, last_update)
DryRunCalls ==
  IF applyCommands THEN SetCommandCalls(TwinEffort, TwinPosition)
  ELSE cycle.setCommand

\* C3: of two runs of update from the same command table, limits, dt and
\* readings that differ only in apply_commands, the one with the flag false
\* calls setCommand on no handle, and the four messages built in the two
\* runs are equal in every field.
C3_DryRunFidelity ==
  cycle.ran =>
    /\ \A n \in DOMAIN DryRunCalls : DryRunCalls[n] = <<>>
    /\ (~applyCommands => \A n \in HwNames : robot_hw[n].command = 0)
    /\ TwinMessages.pose = lcm_pose_msg
    /\ TwinMessages.commanded = lcm_commanded_msg
    /\ TwinMessages.torque = lcm_torque_msg
    /\ TwinMessages.state = lcm_state_msg

\* commands were applied in a cycle whose effort for joint 1 was implausible:
\* setCommand was given 0 and the torque message carries the computed value
C3_Witness ==
  /\ cycle.ran
  /\ applyCommands
  /\ Implausible(cycle.stages[1].rate)
  /\ cycle.setCommand[1] = <<0>>
  /\ TorqueOf(1) = cycle.stages[1].rate
  /\ cycle.setCommand[2] # <<>>

\* C4: in every cycle each registered joint has exactly one index in the
\* measured, echoed-command and full-state messages, none written twice and
\* none left empty; the effort joints hold indices 0..E-1 in registration
\* order, the position joints follow in registration order; the torque
\* message lists the effort joints in the same order; and a joint's index
\* is the same in every cycle, whatever commands came in between.
C4_StableOrdering ==
  cycle.ran =>
    LET order == registered.effort \o registered.position
    IN /\ lcm_pose_msg.joint_name = order
       /\ lcm_commanded_msg.joint_name = order
       /\ lcm_state_msg.joint_name = order
       /\ lcm_torque_msg.joint_name = registered.effort
       /\ lcm_pose_msg.num_joints = Len(order)
       /\ lcm_torque_msg.num_joints = Len(registered.effort)
       /\ \A n \in Registered :
            Cardinality({i \in 1..Len(order) :
                           lcm_pose_msg.joint_name[i] = n}) = 1
       /\ \A i \in 1..Len(order) : order[i] \in Registered
       /\ \A i \in 1..Len(order) :
            /\ lcm_pose_msg.joint_position[i] = cycle.stages[order[i]].q
            /\ lcm_commanded_msg.joint_position[i] =
                 latest_commands[order[i]].position

\* a second cycle in a row, after commands were taken in, with two effort
\* joints and a position joint: names 1, 3 and then 2
C4_Witness ==
  /\ cycle.ran
  /\ cycle.dt = 1
  /\ last_update = 2
  /\ cycle.handled # <<>>
  /\ latest_commands[1] # ZeroCommand
  /\ lcm_pose_msg.joint_name = <<1, 3, 2>>
  /\ lcm_torque_msg.joint_name = <<1, 3>>

\* C5: for every measured effort f and every value v entering the rate
\* stage, the result is v bounded to [f - MAX_CHANGE, f + MAX_CHANGE]:
\* f + MAX_CHANGE when v is above it, f - MAX_CHANGE when v is below it, and
\* v itself when v is within MAX_CHANGE of f (v = f included).
C5_RateClamp ==
  cycle.ran =>
    \A n \in EffortRan :
      LET v == cycle.stages[n].ramp
          upper == Fx(cycle.stages[n].f) + Fx(FORCE_CONTROL_MAX_CHANGE)
          lower == Fx(cycle.stages[n].f) - Fx(FORCE_CONTROL_MAX_CHANGE)
          result == cycle.stages[n].rate
      IN /\ result = Bounded(v, lower, upper)
         /\ v > upper => result = upper
         /\ v < lower => result = lower
         /\ (lower <= v /\ v <= upper) => result = v

\* one cycle in which joint 1 was cut to f + MAX_CHANGE while joint 3
\* entered the stage with v = f and left it unchanged
C5_Witness ==
  /\ cycle.ran
  /\ {1, 3} \subseteq EffortRan
  /\ cycle.stages[1].ramp
       > Fx(cycle.stages[1].f) + Fx(FORCE_CONTROL_MAX_CHANGE)
  /\ cycle.stages[1].rate = Fx(cycle.stages[1].f + FORCE_CONTROL_MAX_CHANGE)
  /\ cycle.stages[3].ramp = Fx(cycle.stages[3].f)
  /\ cycle.stages[3].rate = cycle.stages[3].ramp

\* C6: with err = max(q - maxPosition, minPosition - q), the ramp stage
\* multiplies the magnitude-clamped effort by 1 when err = 0, by
\* (RAMP_BOUND - err) / RAMP_BOUND when 0 < err < RAMP_BOUND, gives 0 when
\* err >= RAMP_BOUND and leaves the effort as it is when err < 0.
C6_RampBoundary ==
  cycle.ran =>
    \A n \in EffortRan :
      LET err == ClaimedErr(n)
          bound == FORCE_CONTROL_ALLOWABLE_POSITION_ERR_BOUND
          in == cycle.stages[n].mag
          out == cycle.stages[n].ramp
      IN /\ in = Bounded(cycle.stages[n].raw, -ClaimedLimits(n).max_effort,
                         ClaimedLimits(n).max_effort)
         /\ err = 0 => out = Fx(in)
         /\ (0 < err /\ err < bound) => out * bound = Fx(in) * (bound - err)
         /\ err >= bound => out = 0
         /\ err < 0 => out = Fx(in)

\* joint 1 half way through the ramp with a non-zero effort, which is halved
C6_Witness ==
  /\ cycle.ran
  /\ ClaimedErr(1) = 2
  /\ cycle.stages[1].mag # 0
  /\ 2 * cycle.stages[1].ramp = Fx(cycle.stages[1].mag)

\* C7: in every cycle the echoed-command and torque messages are published
\* unconditionally, the measured message if and only if
\* publish_core_robot_state is true and the full-state message if and only
\* if publish_est_robot_state is true, each flag on its own.
C7_PublicationGating ==
  cycle.ran =>
    /\ "VAL_COMMAND_FEEDBACK" \in published
    /\ "VAL_COMMAND_FEEDBACK_TORQUE" \in published
    /\ ("CORE_ROBOT_STATE" \in published) <=> publishCoreRobotState
    /\ ("EST_ROBOT_STATE" \in published) <=> publish_est_robot_state

\* C8: with apply_commands true, the value written for a position joint is
\* command.position bounded to [minPosition, maxPosition]: the joint's
\* configured limits when limits were loaded for it, the defaults only when
\* none were; a target inside the range is written unchanged.
C8_PositionClamp ==
  (cycle.ran /\ applyCommands) =>
    \A n \in PositionRan :
      cycle.setCommand[n] =
        << Bounded(cycle.stages[n].command.position,
                   ClaimedLimits(n).min_position,
                   ClaimedLimits(n).max_position) >>

\* C9: in every cycle, for every effort joint read RAMP_BOUND or more beyond
\* a position limit, the effort commanded in that cycle (given to setCommand
\* and reported in the torque message) is 0, whatever the measured effort,
\* the target and the gains.
C9_OutOfRangeNulling ==
  cycle.ran =>
    \A n \in EffortRan :
      ClaimedErr(n) >= FORCE_CONTROL_ALLOWABLE_POSITION_ERR_BOUND =>
        /\ TorqueOf(n) = 0
        /\ \A i \in 1..Len(cycle.setCommand[n]) : cycle.setCommand[n][i] = 0

\* C9 as the code has it: for such a joint the effort that leaves the ramp
\* stage is 0; the torque message reports 0 bounded to
\* [f - MAX_CHANGE, f + MAX_CHANGE], which is 0 exactly when
\* |f| <= MAX_CHANGE; and with commands applied setCommand is given that
\* value, or 0 when its magnitude is 1000 or more.
C9_NulledBeforeRateClamp ==
  cycle.ran =>
    \A n \in EffortRan :
      ClaimedErr(n) >= FORCE_CONTROL_ALLOWABLE_POSITION_ERR_BOUND =>
        LET f == cycle.stages[n].f
            reported == Bounded(0, Fx(f) - Fx(FORCE_CONTROL_MAX_CHANGE),
                                Fx(f) + Fx(FORCE_CONTROL_MAX_CHANGE))
        IN /\ cycle.stages[n].ramp = 0
           /\ TorqueOf(n) = reported
           /\ (fabs(f) <= FORCE_CONTROL_MAX_CHANGE <=> TorqueOf(n) = 0)
           /\ cycle.setCommand[n] =
                IF ~applyCommands THEN <<>>
                ELSE IF Implausible(reported) THEN <<0>>
                ELSE <<reported>>

\* joint 1 is at the end of the ramp with a non-zero command and a measured
\* effort of 50: setCommand is given 30
C9_Witness ==
  /\ cycle.ran
  /\ applyCommands
  /\ ClaimedErr(1) >= FORCE_CONTROL_ALLOWABLE_POSITION_ERR_BOUND
  /\ cycle.stages[1].mag # 0
  /\ cycle.stages[1].f = 50
  /\ cycle.setCommand[1] = <<Fx(30)>>
  /\ TorqueOf(1) = Fx(30)


\* the values a whole entry of joint n can hold: the zeros initRequest gave
\* it, or the eleven values of one entry, naming n, of a dispatched message
WholeEntries(n) ==
  {ZeroCommand} \cup
  UNION {{msg[i].command : i \in {k \in 1..Len(msg) : msg[k].joint_name = n}}
           : msg \in dispatched}

\* C11: whole-entry atomicity.  With messages arriving at any point of a
\* cycle, jointCommandHandler runs only inside the poll at the start of
\* update, and so every entry of the command table that the loops read, for
\* the control law or for the echoed command, has all eleven fields from one
\* entry of one inbound batch, or is all zeros: none mixes two batches.
C11_WholeEntryAtomicity ==
  /\ callback.msg # <<>> => pc = "poll"
  /\ \A n \in DOMAIN reads : reads[n] \in WholeEntries(n)
  /\ \A n \in DOMAIN cycle.stages :
       cycle.stages[n].command \in WholeEntries(n)
  /\ \A k \in 1..lcm_commanded_msg.num_joints :
       \E c \in WholeEntries(lcm_commanded_msg.joint_name[k]) :
          /\ lcm_commanded_msg.joint_position[k] = c.position
          /\ lcm_commanded_msg.joint_velocity[k] = c.velocity
          /\ lcm_commanded_msg.joint_effort[k] = c.effort

\* the second cycle's poll has overwritten joint 1's entry, all eleven
\* fields differing, a further message arrived while that cycle ran and is
\* still waiting, and the loop has read the new entry whole
C11_Witness ==
  /\ pc = "loops"
  /\ 1 \in DOMAIN reads
  /\ cycle.before[1] = CmdA
  /\ reads[1] = CmdC
  /\ arrived # cycle.arrived
  /\ inbox # <<>>

====
